---- MODULE Spec2Model ----
(***************************************************************************)
(* SM2 public-key encryption and signatures (sm-crypto-v3, src/sm2).        *)
(*                                                                         *)
(* The operations doEncrypt, xorCipherStream, doDecrypt, doSignature and   *)
(* doVerifySignature are translated from the source.  The collaborators    *)
(* the source imports (the curve, the scalar field, SM3, the hex helpers,  *)
(* the ASN.1 codec) are modelled on a scaled-down curve of prime order     *)
(* with a byte-oriented 32-byte digest, so that every key, every ephemeral *)
(* scalar and every rejection case of the signer can be enumerated.        *)
(* Strings are sequences of one-character strings; byte arrays are         *)
(* sequences of 0..255.                                                    *)
(***************************************************************************)
EXTENDS Integers, Sequences, FiniteSets, TLC

VARIABLES
    enc,        \* the last doEncrypt call: its arguments, the k drawn, its fields
                \* c1, c2, c3 and its result
    dec,        \* the last doDecrypt call: its arguments and its result
    sig,        \* the doSignature call in progress or returned
    pointPool,  \* the caller-owned options.pointPool of doSignature
    ver         \* the last doVerifySignature call: its arguments and its result

vars == <<enc, dec, sig, pointPool, ver>>

----------------------------------------------------------------------------
(* Bounds of the model *)

\* longest pointPool handed to doSignature
MaxPool == 2
\* largest r and s a forged signature carries (beyond 2n - 1)
MaxSigInt == 14
\* longest message drawn from every byte string over MsgBytes
MaxShortLen == 1
\* the passes of the generation loop a behaviour follows
MaxAttempts == 3

----------------------------------------------------------------------------
(* Curve and scalar field: y^2 = x^3 + a x + b over F_p, generator G of     *)
(* prime order n, cofactor 1, a = p - 3 and n < p as on the SM2 curve.      *)

CurveP == 11
CurveA == 8
CurveB == 10
CurveN == 7
CurveGx == 2
CurveGy == 1

ZERO == 0
ONE == 1

\* the identity point; its affine coordinates read as (0, 0)
PointZERO == [inf |-> TRUE, x |-> 0, y |-> 0]
BASE == [inf |-> FALSE, x |-> CurveGx, y |-> CurveGy]

Mod(a, m) == a % m

\* the inverse of a modulo the prime m, a not divisible by m
Invert(a, m) == CHOOSE i \in 1..(m - 1) : (Mod(a, m) * i) % m = 1

OnCurve(x, y) ==
    (y * y) % CurveP = (x * x * x + CurveA * x + CurveB) % CurveP

PointAdd(P, Q) ==
    IF P.inf THEN Q
    ELSE IF Q.inf THEN P
    ELSE IF P.x = Q.x /\ (P.y + Q.y) % CurveP = 0 THEN PointZERO
    ELSE LET lam == IF P.x = Q.x
                    THEN ((3 * P.x * P.x + CurveA) * Invert(2 * P.y, CurveP)) % CurveP
                    ELSE ((Q.y - P.y) * Invert(Q.x - P.x, CurveP)) % CurveP
             x3 == (lam * lam - P.x - Q.x) % CurveP
             y3 == (lam * (P.x - x3) - P.y) % CurveP
         IN [inf |-> FALSE, x |-> x3, y |-> y3]

RECURSIVE PointMul(_, _)
PointMul(P, k) == IF k = 0 THEN PointZERO ELSE PointAdd(PointMul(P, k - 1), P)

\* ProjectivePoint.multiply accepts a scalar in [1, n-1] only and throws otherwise
ValidScalar(k) == k \in 1..(CurveN - 1)

\* field = Field(n): add and mul reduce, addN, subN and mulN do not
FieldAdd(a, b) == Mod(a + b, CurveN)
FieldMul(a, b) == Mod(a * b, CurveN)
FieldAddN(a, b) == a + b
FieldSubN(a, b) == a - b
FieldMulN(a, b) == a * b
\* field.inv throws when the inverse does not exist
FieldInv(a) == Invert(a, CurveN)

----------------------------------------------------------------------------
(* Hex and byte helpers *)

HexChars == <<"0", "1", "2", "3", "4", "5", "6", "7",
              "8", "9", "a", "b", "c", "d", "e", "f">>
UpperHex == <<"A", "B", "C", "D", "E", "F">>

\* String.prototype.toLowerCase on one character, and then on a string
LowerChar(c) ==
    IF \E i \in 1..6 : UpperHex[i] = c
    THEN HexChars[10 + (CHOOSE i \in 1..6 : UpperHex[i] = c)]
    ELSE c
toLowerCase(str) == [i \in 1..Len(str) |-> LowerChar(str[i])]

\* the value of each hexadecimal digit, upper or lower case
HexTable ==
    [c \in {HexChars[i] : i \in 1..16} \cup {UpperHex[i] : i \in 1..6} |->
        (CHOOSE i \in 1..16 : HexChars[i] = LowerChar(c)) - 1]
HexVal(c) == HexTable[c]

\* a number larger than every number of the model: hexToNumber of a string
\* with more than six significant digits
Big == 16777216

\* hex without its leading "0" characters
StripZeros(hex) ==
    LET nz == {i \in 1..Len(hex) : hex[i] # "0"}
    IN IF nz = {} THEN <<>>
       ELSE SubSeq(hex, CHOOSE i \in nz : \A j \in nz : i <= j, Len(hex))

RECURSIVE HexValue(_)
HexValue(hex) ==
    IF hex = <<>> THEN 0
    ELSE 16 * HexValue(SubSeq(hex, 1, Len(hex) - 1)) + HexVal(hex[Len(hex)])

\* utils.hexToNumber: BigInt('0x' + hex), 0 for the empty string
hexToNumber(hex) ==
    LET sig0 == StripZeros(hex)
    IN IF Len(sig0) > 6 THEN Big ELSE HexValue(sig0)

\* utils.hexToNumber followed by a reduction modulo m (Horner, digit by digit)
\* acc extended by the digits lo..hi of hex, in order
RECURSIVE HexValueMod(_, _, _, _, _)
HexValueMod(hex, acc, lo, hi, m) ==
    IF lo > hi THEN acc
    ELSE IF lo = hi THEN (16 * acc + HexVal(hex[lo])) % m
    ELSE LET mid == (lo + hi) \div 2
             left == HexValueMod(hex, acc, lo, mid, m)
         IN IF left >= 0 THEN HexValueMod(hex, left, mid + 1, hi, m) ELSE left
hexToNumberMod(hex, m) == HexValueMod(hex, 0, 1, Len(hex), m)

RECURSIVE toString16(_)
toString16(num) ==
    IF num < 16 THEN <<HexChars[num + 1]>>
    ELSE Append(toString16(num \div 16), HexChars[(num % 16) + 1])

\* utils.numberToHexUnpadded: toString(16), one "0" in front of an odd length
numberToHexUnpadded(num) ==
    LET hex == toString16(num)
    IN IF Len(hex) % 2 = 1 THEN <<"0">> \o hex ELSE hex

\* leftPad(input, num): zeros in front up to num characters
leftPad(input, num) ==
    IF Len(input) >= num THEN input
    ELSE [i \in 1..(num - Len(input)) |-> "0"] \o input

\* hexToArray: two characters a byte, an odd string padded by one "0" first
hexToArray(hexStr) ==
    LET h == IF Len(hexStr) % 2 = 1 THEN <<"0">> \o hexStr ELSE hexStr
    IN [i \in 1..(Len(h) \div 2) |-> 16 * HexVal(h[2 * i - 1]) + HexVal(h[2 * i])]

\* bytesToHex / arrayToHex: two lowercase characters a byte
bytesToHex(arr) ==
    [i \in 1..(2 * Len(arr)) |->
        IF i % 2 = 1 THEN HexChars[(arr[(i + 1) \div 2] \div 16) + 1]
        ELSE HexChars[(arr[i \div 2] % 16) + 1]]

substring(str, from, to) ==
    LET t == IF to > Len(str) THEN Len(str) ELSE to
        f == IF from < 0 THEN 0 ELSE from
    IN IF f >= t THEN <<>> ELSE SubSeq(str, f + 1, t)

RECURSIVE BitXor(_, _)
BitXor(a, b) ==
    IF a = 0 THEN b
    ELSE IF b = 0 THEN a
    ELSE ((a + b) % 2) + 2 * BitXor(a \div 2, b \div 2)

----------------------------------------------------------------------------
(* SM3, consumed as a byte-oriented function with a 32-byte digest: the     *)
(* bytes are absorbed into one number modulo a prime, and the digest is     *)
(* that number (bytes 1 to 3) followed by 29 bytes mixed from it.  Two      *)
(* inputs of one length that differ in one byte never share a digest.       *)

Sm3Prime == 1000003
Sm3Len == 32

\* the state st after the bytes lo..hi of arr, absorbed in order
RECURSIVE Sm3Absorb(_, _, _, _)
Sm3Absorb(arr, st, lo, hi) ==
    IF lo > hi THEN st
    ELSE IF lo = hi THEN (st * 257 + arr[lo] + 1) % Sm3Prime
    ELSE LET mid == (lo + hi) \div 2
             left == Sm3Absorb(arr, st, lo, mid)
         IN IF left >= 0 THEN Sm3Absorb(arr, left, mid + 1, hi) ELSE left

sm3(arr) ==
    LET st == Sm3Absorb(arr, 7, 1, Len(arr))
        b1 == st % 256
        b2 == (st \div 256) % 256
        b3 == st \div 65536
    IN [i \in 1..Sm3Len |->
          IF i = 1 THEN b1
          ELSE IF i = 2 THEN b2
          ELSE IF i = 3 THEN b3
          ELSE (b1 * i + b2 * (i + 3) + b3 * 17 + (st % 251) + i * i) % 256]

----------------------------------------------------------------------------
(* Points as hex strings *)

CoordHexLen == 64

\* the coordinate as a 32-byte big-endian buffer:
\* hexToArray(leftPad(numberToHexUnpadded(v), 64))
CoordBytes(v) == hexToArray(leftPad(numberToHexUnpadded(v), CoordHexLen))

\* the uncompressed encoding "04" || X || Y of a point
PointToHex(P) ==
    <<"0", "4">> \o leftPad(numberToHexUnpadded(P.x), CoordHexLen)
                 \o leftPad(numberToHexUnpadded(P.y), CoordHexLen)

\* ProjectivePoint.fromHex of an uncompressed encoding: the point, or a throw
\* when the string is no "04" || X || Y of a point on the curve
fromHex(hex) ==
    LET x == hexToNumber(substring(hex, 2, 2 + CoordHexLen))
        y == hexToNumber(substring(hex, 2 + CoordHexLen, 2 + 2 * CoordHexLen))
    IN IF /\ Len(hex) = 2 + 2 * CoordHexLen
          /\ substring(hex, 0, 2) = <<"0", "4">>
          /\ x < CurveP /\ y < CurveP
          /\ OnCurve(x, y)
       THEN [threw |-> FALSE, point |-> [inf |-> FALSE, x |-> x, y |-> y]]
       ELSE [threw |-> TRUE, point |-> PointZERO]

\* ProjectivePoint.fromAffine: (0, 0) is the identity, coordinates outside
\* the field throw, the curve equation is not checked
fromAffine(x, y) ==
    IF x >= CurveP \/ y >= CurveP THEN [threw |-> TRUE, point |-> PointZERO]
    ELSE IF x = 0 /\ y = 0 THEN [threw |-> FALSE, point |-> PointZERO]
    ELSE [threw |-> FALSE, point |-> [inf |-> FALSE, x |-> x, y |-> y]]

\* generateKeyPairHex with the random private key k: both halves as hex
generateKeyPairHex(k) ==
    [privateKey |-> leftPad(numberToHexUnpadded(k), CoordHexLen),
     publicKey |-> PointToHex(PointMul(BASE, k))]

\* getPublicKeyFromPrivateKey: "04" || X || Y of d * G
getPublicKeyFromPrivateKey(privateKey) ==
    PointToHex(PointMul(BASE, hexToNumber(privateKey)))

----------------------------------------------------------------------------
(* ASN.1 DER: SEQUENCE { INTEGER r, INTEGER s } for a signature and         *)
(* SEQUENCE { INTEGER x, INTEGER y, OCTET STRING, OCTET STRING } for a      *)
(* ciphertext.  Lengths below 128 take one byte, longer ones 0x80 + the     *)
(* number of length bytes; an INTEGER is minimal, with a 00 byte in front   *)
(* when its high bit is set.                                                *)

DerLength(v) ==
    LET nbytes == Len(v) \div 2
        nHex == numberToHexUnpadded(nbytes)
    IN IF nbytes < 128 THEN nHex
       ELSE numberToHexUnpadded(128 + Len(nHex) \div 2) \o nHex

DerTlv(t, v) == t \o DerLength(v) \o v

DerInteger(num) ==
    LET h == numberToHexUnpadded(num)
    IN DerTlv(<<"0", "2">>, IF HexVal(h[1]) >= 8 THEN <<"0", "0">> \o h ELSE h)

DerOctetString(hex) == DerTlv(<<"0", "4">>, toLowerCase(hex))

\* the value of len bytes that starts at character start (from 0) of str
DerValue(str, start, len) ==
    [start |-> start,
     value |-> substring(str, start, start + 2 * len),
     next |-> start + 2 * len]

DerReadLong(str, pos, nlen) ==
    DerValue(str, pos + 4 + 2 * nlen,
             hexToNumber(substring(str, pos + 4, pos + 4 + 2 * nlen)))

DerReadFirst(str, pos, first) ==
    IF first < 128 THEN DerValue(str, pos + 4, first)
    ELSE DerReadLong(str, pos, first - 128)

\* the tag-length-value that starts at character pos (from 0) of str
DerRead(str, pos) ==
    DerReadFirst(str, pos, hexToNumber(substring(str, pos + 2, pos + 4)))

encodeDer(r, s) == DerTlv(<<"3", "0">>, DerInteger(r) \o DerInteger(s))

DecodeDerRS(vR, vS) ==
    [r |-> hexToNumber(vR.value), s |-> hexToNumber(vS.value)]
DecodeDerS(input, vR) == DecodeDerRS(vR, DerRead(input, vR.next))
decodeDer(input) == DecodeDerS(input, DerRead(input, DerRead(input, 0).start))

encodeEnc(x, y, hash, cipher) ==
    DerTlv(<<"3", "0">>, DerInteger(x) \o DerInteger(y)
                         \o DerOctetString(hash) \o DerOctetString(cipher))

DecodeEncAll(vX, vY, vHash, vCipher) ==
    [x |-> hexToNumber(vX.value), y |-> hexToNumber(vY.value),
     hash |-> vHash.value, cipher |-> vCipher.value]
DecodeEncCipher(input, vX, vY, vHash) ==
    DecodeEncAll(vX, vY, vHash, DerRead(input, vHash.next))
DecodeEncHash(input, vX, vY) ==
    DecodeEncCipher(input, vX, vY, DerRead(input, vY.next))
DecodeEncY(input, vX) == DecodeEncHash(input, vX, DerRead(input, vX.next))
decodeEnc(input) == DecodeEncY(input, DerRead(input, DerRead(input, 0).start))

----------------------------------------------------------------------------
(* Encryption and decryption *)

C1C2C3 == 0
C1C3C2 == 1
CipherModes == {C1C2C3, C1C3C2}

\* ct as four bytes, least significant first
ctShiftLittleEndian(ct) ==
    <<ct % 256, (ct \div 256) % 256, (ct \div 65536) % 256, (ct \div 16777216) % 256>>

\* the four bytes nextT writes into ctShift: ct, big-endian
ctShift(ct) ==
    <<(ct \div 16777216) % 256, (ct \div 65536) % 256, (ct \div 256) % 256, ct % 256>>

\* nextT: t = sm3(x2 || y2 || ctShift), ct++, offset = 0
nextT(x2, y2, st) ==
    [st EXCEPT !.t = sm3(x2 \o y2 \o ctShift(st.ct)),
               !.ct = st.ct + 1,
               !.offset = 0]

\* the body of the for loop of xorCipherStream at index i (from 0)
XorStep(x2, y2, st, i) ==
    LET s1 == IF st.offset = Len(st.t) THEN nextT(x2, y2, st) ELSE st
    IN [s1 EXCEPT !.msg[i + 1] = BitXor(@, s1.t[s1.offset + 1] % 256),
                  !.offset = s1.offset + 1]

\* the iterations lo..hi of the for loop, in order
RECURSIVE XorLoop(_, _, _, _, _)
XorLoop(x2, y2, st, lo, hi) ==
    IF lo > hi THEN st
    ELSE IF lo = hi THEN XorStep(x2, y2, st, lo)
    ELSE LET mid == (lo + hi) \div 2
             left == XorLoop(x2, y2, st, lo, mid)
         IN IF left.ct > 0 THEN XorLoop(x2, y2, left, mid + 1, hi) ELSE left

\* xorCipherStream: msg is XORed in place; the locals ct, offset and t as they
\* are when the function returns are kept beside it
xorCipherStream(x2, y2, msg) ==
    XorLoop(x2, y2,
            nextT(x2, y2, [ct |-> 1, offset |-> 0, t |-> <<>>, msg |-> msg]),
            0, Len(msg) - 1)

\* doEncrypt up to its c2, step by step: the fields c1, c3 and c2, with rnd the
\* private key that generateKeyPairHex draws
EncryptStream(msgArr, c1, x2, y2) ==
    [c1 |-> c1,
     c3 |-> bytesToHex(sm3(x2 \o msgArr \o y2)),
     c2 |-> bytesToHex(xorCipherStream(x2, y2, msgArr).msg)]

EncryptShared(msgArr, c1, p) ==
    EncryptStream(msgArr, c1, CoordBytes(p.x), CoordBytes(p.y))

EncryptKeypair(msgArr, publicKeyPoint, keypair) ==
    EncryptShared(msgArr,
                  IF Len(keypair.publicKey) > 128
                  THEN substring(keypair.publicKey, Len(keypair.publicKey) - 128,
                                 Len(keypair.publicKey))
                  ELSE keypair.publicKey,
                  PointMul(publicKeyPoint, hexToNumber(keypair.privateKey)))

EncryptFields(msg, publicKey, rnd) ==
    EncryptKeypair(msg, fromHex(publicKey).point, generateKeyPairHex(rnd))

\* a serialisation that puts c3 before c2 whatever the cipher mode
FrameIgnoresMode(f, cipherMode, asn1) ==
    LET x == hexToNumber(substring(f.c1, 0, CoordHexLen))
        y == hexToNumber(substring(f.c1, CoordHexLen, 2 * CoordHexLen))
    IN IF asn1 THEN encodeEnc(x, y, f.c3, f.c2) ELSE f.c1 \o f.c3 \o f.c2

\* the serialisation that ends doEncrypt: ASN.1 with the point decoded from
\* "04" || c1, or the three fields concatenated
EncryptFrame(f, cipherMode, asn1) ==
    LET point == fromHex(<<"0", "4">> \o f.c1).point
    IN IF asn1
       THEN IF cipherMode = C1C2C3
            THEN encodeEnc(point.x, point.y, f.c2, f.c3)
            ELSE encodeEnc(point.x, point.y, f.c3, f.c2)
       ELSE IF cipherMode = C1C2C3 THEN f.c1 \o f.c2 \o f.c3
            ELSE f.c1 \o f.c3 \o f.c2

doEncrypt(msg, publicKey, cipherMode, asn1, rnd) ==
    EncryptFrame(EncryptFields(msg, publicKey, rnd), cipherMode, asn1)

\* the split of encryptData that opens doDecrypt: the point c1 (or a throw)
\* and the strings c2 and c3
SplitDer(der, swap) ==
    [c1 |-> fromAffine(der.x, der.y),
     c3 |-> IF swap THEN der.cipher ELSE der.hash,
     c2 |-> IF swap THEN der.hash ELSE der.cipher]

SplitHex(encryptData, cipherMode) ==
    [c1 |-> fromHex(<<"0", "4">> \o substring(encryptData, 0, 128)),
     c3 |-> IF cipherMode = C1C2C3
            THEN substring(encryptData, Len(encryptData) - 64, Len(encryptData))
            ELSE substring(encryptData, 128, 128 + 64),
     c2 |-> IF cipherMode = C1C2C3
            THEN substring(encryptData, 128, Len(encryptData) - 64)
            ELSE substring(encryptData, 128 + 64, Len(encryptData))]

\* a split that reads every ciphertext as C1 C3 C2
DecryptSplitNoSwap(encryptData, cipherMode, asn1) ==
    IF asn1 THEN SplitDer(decodeEnc(encryptData), FALSE)
    ELSE SplitHex(encryptData, C1C3C2)

DecryptSplit(encryptData, cipherMode, asn1) ==
    IF asn1 THEN SplitDer(decodeEnc(encryptData), cipherMode = C1C2C3)
    ELSE SplitHex(encryptData, cipherMode)

\* what doDecrypt hands back: the value returned (output "array"), or a throw;
\* c1, c2 and c3 are its locals after the split of encryptData
DecryptReturn(f, x2, y2, msg) ==
    [threw |-> FALSE,
     value |-> IF bytesToHex(sm3(x2 \o msg \o y2)) = toLowerCase(f.c3)
               THEN msg ELSE <<>>,
     c1 |-> f.c1.point, c2 |-> f.c2, c3 |-> f.c3]

DecryptStream(f, x2, y2) ==
    DecryptReturn(f, x2, y2, xorCipherStream(x2, y2, hexToArray(f.c2)).msg)

DecryptShared(f, p) == DecryptStream(f, CoordBytes(p.x), CoordBytes(p.y))

DecryptPoint(f, privateKeyInteger) ==
    IF f.c1.threw \/ ~ValidScalar(privateKeyInteger)
    THEN [threw |-> TRUE, value |-> <<>>, c1 |-> PointZERO, c2 |-> f.c2, c3 |-> f.c3]
    ELSE DecryptShared(f, PointMul(f.c1.point, privateKeyInteger))

doDecrypt(encryptData, privateKey, cipherMode, asn1) ==
    DecryptPoint(DecryptSplit(encryptData, cipherMode, asn1), hexToNumber(privateKey))

----------------------------------------------------------------------------
(* Signing and verification *)

\* the value of a variable declared null and not yet assigned
Null == -1

\* the default userId, "1234567812345678"
UserIdDefault ==
    <<"1", "2", "3", "4", "5", "6", "7", "8", "1", "2", "3", "4", "5", "6", "7", "8">>

\* utf8ToHex of a string of ASCII digits: the digit d is the byte 0x3d
utf8ToHex(str) == [i \in 1..(2 * Len(str)) |-> IF i % 2 = 1 THEN "3" ELSE str[i \div 2]]

\* getZ, from its data on: z = sm3(entl || userId || a || b || gx || gy || px || py)
ZDigest(userId, px, py) ==
    sm3(<<((Len(userId) * 4) \div 256) % 256, (Len(userId) * 4) % 256>>
        \o hexToArray(userId
                      \o leftPad(numberToHexUnpadded(CurveA), CoordHexLen)
                      \o leftPad(numberToHexUnpadded(CurveB), CoordHexLen)
                      \o leftPad(numberToHexUnpadded(BASE.x), CoordHexLen)
                      \o leftPad(numberToHexUnpadded(BASE.y), CoordHexLen)
                      \o px \o py))

ZOfPoint(userId, point) ==
    ZDigest(userId, leftPad(numberToHexUnpadded(point.x), CoordHexLen),
            leftPad(numberToHexUnpadded(point.y), CoordHexLen))

getZ(publicKey, userId) ==
    IF Len(publicKey) = 128
    THEN ZDigest(utf8ToHex(userId), substring(publicKey, 0, 64),
                 substring(publicKey, 64, 128))
    ELSE ZOfPoint(utf8ToHex(userId), fromHex(publicKey).point)

\* getHash: e = sm3(z || msg) as hex; hashHex is a hex string (isString) or
\* the bytes themselves
getHash(hashHex, isString, publicKey, userId) ==
    bytesToHex(sm3(getZ(publicKey, userId)
                   \o (IF isString THEN hexToArray(hashHex) ELSE hashHex)))

\* getPoint with the random private key k: k and the x of k * G
getPoint(k) ==
    [k |-> hexToNumber(generateKeyPairHex(k).privateKey),
     x1 |-> fromHex(generateKeyPairHex(k).publicKey).point.x]

\* doSignature up to its loop: hashHex
SignHashHex(msg, privateKey, hash) ==
    IF hash
    THEN getHash(bytesToHex(msg), TRUE, getPublicKeyFromPrivateKey(privateKey),
                 UserIdDefault)
    ELSE bytesToHex(msg)

\* the point an attempt takes from a pool that is not empty, and the pool left
PoolTakeFirst(pool) == [point |-> Head(pool), rest |-> Tail(pool)]

\* the last entry read and left in the pool
PoolPeek(pool) == [point |-> pool[Len(pool)], rest |-> pool]

\* pointPool.pop()
PoolPop(pool) == [point |-> pool[Len(pool)], rest |-> SubSeq(pool, 1, Len(pool) - 1)]

\* s = ((1 + dA)^-1 * (k - r * dA)) mod n
SignS(dA, k, r) ==
    FieldMul(FieldInv(FieldAddN(dA, ONE)), FieldSubN(k, FieldMulN(r, dA)))

\* one pass of the body of the outer loop with the point taken, whatever r + k is
SignTryNoSum(dA, point, r, sPrev) ==
    IF r = ZERO
    THEN [k |-> point.k, x1 |-> point.x1, r |-> r, s |-> sPrev, again |-> TRUE]
    ELSE [k |-> point.k, x1 |-> point.x1, r |-> r, s |-> SignS(dA, point.k, r),
          again |-> SignS(dA, point.k, r) = ZERO]

\* one pass of the body of the outer loop with the point taken and r computed:
\* k, r and s after it, and whether a loop condition sends control back
SignTry(dA, point, r, sPrev) ==
    IF r = ZERO \/ r + point.k = CurveN
    THEN [k |-> point.k, x1 |-> point.x1, r |-> r, s |-> sPrev, again |-> TRUE]
    ELSE [k |-> point.k, x1 |-> point.x1, r |-> r, s |-> SignS(dA, point.k, r),
          again |-> SignS(dA, point.k, r) = ZERO]

\* r = (e + x1) mod n, then the rest of the pass
SignPass(e, dA, point, sPrev) ==
    SignTry(dA, point, FieldAdd(e, point.x1), sPrev)

\* what doSignature returns for r and s
SignReturn(r, s, der) ==
    IF der THEN encodeDer(r, s)
    ELSE leftPad(numberToHexUnpadded(r), 64) \o leftPad(numberToHexUnpadded(s), 64)

\* doVerifySignature: hashHex
VerifyHashHex(msg, publicKeyHex, hash) ==
    IF hash THEN getHash(msg, FALSE, publicKeyHex, UserIdDefault)
    ELSE bytesToHex(msg)

\* doVerifySignature: r and s out of signHex
VerifyParse(signHex, der) ==
    IF der THEN decodeDer(signHex)
    ELSE [r |-> hexToNumber(substring(signHex, 0, 64)),
          s |-> hexToNumber(substring(signHex, 64, Len(signHex)))]

\* R taken from the y of the point
VerifyRFromY(e, x1y1) == FieldAdd(e, x1y1.y)

\* R = (e + x1) mod n; the x of the identity reads 0
VerifyR(e, x1y1) == FieldAdd(e, x1y1.x)

\* the end of doVerifySignature, with x1y1 = s * G + t * PA computed
VerifyCompare(e, rs, t, x1y1) ==
    [threw |-> FALSE, value |-> rs.r = VerifyR(e, x1y1),
     r |-> rs.r, s |-> rs.s, t |-> t, inf |-> x1y1.inf]

\* doVerifySignature from t on: false when t is 0, a throw when multiply
\* refuses the scalar s
VerifyPoint(PA, e, rs, t) ==
    IF t = ZERO
    THEN [threw |-> FALSE, value |-> FALSE, r |-> rs.r, s |-> rs.s, t |-> t,
          inf |-> FALSE]
    ELSE IF ~ValidScalar(rs.s) \/ ~ValidScalar(t)
    THEN [threw |-> TRUE, value |-> FALSE, r |-> rs.r, s |-> rs.s, t |-> t,
          inf |-> FALSE]
    ELSE VerifyCompare(e, rs, t, PointAdd(PointMul(BASE, rs.s), PointMul(PA, t)))

VerifyParsed(PA, e, rs) ==
    IF PA.threw
    THEN [threw |-> TRUE, value |-> FALSE, r |-> rs.r, s |-> rs.s, t |-> Null,
          inf |-> FALSE]
    ELSE VerifyPoint(PA.point, e, rs, FieldAdd(rs.r, rs.s))

\* doVerifySignature(msg, signHex, publicKey, {der, hash}): the boolean it
\* returns, or a throw; r, s, t and whether x1y1 is the identity are its locals
doVerifySignature(msg, signHex, publicKey, der, hash) ==
    VerifyParsed(fromHex(publicKey),
                 hexToNumberMod(VerifyHashHex(msg, publicKey, hash), CurveN),
                 VerifyParse(signHex, der))

----------------------------------------------------------------------------
(* The encrypt / decrypt machine: a caller encrypts a message for the key   *)
(* d * G, and the ciphertext, as it is or with one bit of one field         *)
(* flipped on the way, is decrypted with d in the same mode.  A behaviour   *)
(* follows one ciphertext.                                                  *)

PrivateKeys == 1..(CurveN - 2)
Ephemerals == 1..(CurveN - 1)
KeyHex(d) == leftPad(numberToHexUnpadded(d), CoordHexLen)

MsgBytes == {0, 255}
LongLens == {32, 33, 97}
LongMsg(len) == [i \in 1..len |-> (i * 7 + 3) % 256] \o <<>>
RECURSIVE ShortMsgs(_)
ShortMsgs(len) ==
    IF len = 0 THEN {<<>>}
    ELSE LET shorter == ShortMsgs(len - 1)
         IN shorter \cup {Append(m, b) : m \in {s \in shorter : Len(s) = len - 1},
                                         b \in MsgBytes}
EncMessages == ShortMsgs(MaxShortLen) \cup {LongMsg(len) : len \in LongLens}

NoEnc == [called |-> FALSE, msg |-> <<>>, d |-> 0, cipherMode |-> C1C3C2,
          asn1 |-> FALSE, k |-> 0, out |-> <<>>,
          fields |-> [c1 |-> <<>>, c2 |-> <<>>, c3 |-> <<>>]]
NoDec == [called |-> FALSE, encryptData |-> <<>>, tamper |-> "none",
          ret |-> [threw |-> FALSE, value |-> <<>>, c1 |-> PointZERO,
                   c2 |-> <<>>, c3 |-> <<>>]]
NoSig == [pc |-> "idle", msg |-> <<>>, d |-> 0, der |-> FALSE, hash |-> FALSE,
          usePool |-> FALSE, e |-> 0, pool0 |-> <<>>, taken |-> <<>>, fresh |-> 0,
          src |-> "none", k |-> Null, x1 |-> Null, r |-> Null, s |-> Null,
          out |-> <<>>]
NoVer == [called |-> FALSE, msg |-> <<>>, signHex |-> <<>>, d |-> 0, der |-> FALSE,
          hash |-> FALSE, rIn |-> Null, sIn |-> Null,
          ret |-> [threw |-> FALSE, value |-> FALSE, r |-> Null, s |-> Null,
                   t |-> Null, inf |-> FALSE]]

\* the hex string h with bit `bit` of its byte `byte` (from 1) flipped
FlipBit(h, byte, bit) ==
    LET arr == hexToArray(h)
        pow == 2 ^ bit
        old == arr[byte]
        new == IF (old \div pow) % 2 = 1 THEN old - pow ELSE old + pow
    IN bytesToHex([arr EXCEPT ![byte] = new])

\* the bits and the bytes of each field that the flips of the model reach
TamperBits == {0, 3, 7}
TamperBytes(field, f) ==
    IF field = "c1" THEN {1, 32, 64}
    ELSE IF field = "c3" THEN {1, 32}
    ELSE {i \in {1, Len(f.c2) \div 2} : i >= 1 /\ i <= Len(f.c2) \div 2}

EncInit ==
    /\ enc = NoEnc
    /\ dec = NoDec
    /\ sig = NoSig
    /\ pointPool = <<>>
    /\ ver = NoVer

Encrypt ==
    /\ ~enc.called
    /\ \E msg \in EncMessages, d \in PrivateKeys, k \in Ephemerals,
       cipherMode \in CipherModes, asn1 \in BOOLEAN :
        enc' = [called |-> TRUE, msg |-> msg, d |-> d, cipherMode |-> cipherMode,
                asn1 |-> asn1, k |-> k,
                out |-> doEncrypt(msg, getPublicKeyFromPrivateKey(KeyHex(d)),
                                  cipherMode, asn1, k),
                fields |-> EncryptFields(msg, getPublicKeyFromPrivateKey(KeyHex(d)), k)]
    /\ UNCHANGED <<dec, sig, pointPool, ver>>

\* doDecrypt called on data with the key and the mode of the encryptor
DecryptCall(data, tamper) ==
    [called |-> TRUE, encryptData |-> data, tamper |-> tamper,
     ret |-> doDecrypt(data, KeyHex(enc.d), enc.cipherMode, enc.asn1)]

Decrypt ==
    /\ enc.called /\ ~dec.called
    /\ dec' = DecryptCall(enc.out, "none")
    /\ UNCHANGED <<enc, sig, pointPool, ver>>

\* one bit of C1, C2 or C3 is flipped before doDecrypt sees the ciphertext (C1
\* in the concatenated framing only: ASN.1 carries it as two INTEGERs)
DecryptTampered ==
    /\ enc.called /\ ~dec.called
    /\ \E field \in {"c1", "c2", "c3"} :
         /\ field = "c1" => ~enc.asn1
         /\ \E byte \in TamperBytes(field, enc.fields), bit \in TamperBits :
              dec' = DecryptCall(
                        EncryptFrame([enc.fields EXCEPT
                                        ![field] = FlipBit(enc.fields[field], byte, bit)],
                                     enc.cipherMode, enc.asn1),
                        field)
    /\ UNCHANGED <<enc, sig, pointPool, ver>>

EncNext == Encrypt \/ Decrypt \/ DecryptTampered

SpecEnc == EncInit /\ [][EncNext]_vars

----------------------------------------------------------------------------
(* The signing machine: a caller that owns a pool of precomputed points      *)
(* calls doSignature, with the pool or without it; the generation loop runs  *)
(* one attempt at a time; the signature returned is verified against the     *)
(* public key d * G with the same options.                                   *)

\* the ephemeral keys of the points a caller has put in its pool
PoolKs == {1, 3, CurveN - 1}
RECURSIVE PoolsOfLen(_)
PoolsOfLen(len) ==
    IF len = 0 THEN {<<>>}
    ELSE {Append(p, getPoint(k)) : p \in PoolsOfLen(len - 1), k \in PoolKs}
Pools == UNION {PoolsOfLen(len) : len \in 0..MaxPool}

\* one-byte messages give every e modulo n when the Z pre-hash is off
SigMessages == {<<b>> : b \in 0..(CurveN - 1)} \cup {<<>>, LongMsg(Sm3Len + 1)}
\* the settings of the hash option tried with a message
HashOptions(msg) == IF Len(msg) = 1 /\ msg[1] > 1 THEN {FALSE} ELSE BOOLEAN

SigInit ==
    /\ enc = NoEnc
    /\ dec = NoDec
    /\ sig = NoSig
    /\ pointPool \in Pools
    /\ ver = NoVer

\* doSignature is called and reaches its loop
SignStart ==
    /\ sig.pc = "idle"
    /\ \E msg \in SigMessages, d \in PrivateKeys, der \in BOOLEAN, usePool \in BOOLEAN :
       \E hash \in HashOptions(msg) :
        sig' = [NoSig EXCEPT
                  !.pc = "loop", !.msg = msg, !.d = d, !.der = der, !.hash = hash,
                  !.usePool = usePool, !.pool0 = pointPool,
                  !.e = hexToNumberMod(SignHashHex(msg, KeyHex(d), hash), CurveN)]
    /\ UNCHANGED <<enc, dec, pointPool, ver>>

\* sig after one pass of the loop body that took point from src
AfterPass(pass, src, taken, fresh) ==
    [sig EXCEPT
       !.pc = IF pass.again THEN "loop" ELSE "done",
       !.k = pass.k, !.x1 = pass.x1, !.r = pass.r, !.s = pass.s,
       !.src = src, !.taken = taken, !.fresh = fresh,
       !.out = IF pass.again THEN <<>> ELSE SignReturn(pass.r, pass.s, sig.der)]

\* an attempt that pops its point from the pool
SignAttemptPool ==
    /\ sig.pc = "loop"
    /\ Len(sig.taken) + sig.fresh < MaxAttempts
    /\ sig.usePool /\ Len(pointPool) > 0
    /\ pointPool' = PoolPop(pointPool).rest
    /\ sig' = AfterPass(SignPass(sig.e, hexToNumber(KeyHex(sig.d)),
                                 PoolPop(pointPool).point, sig.s),
                        "pool", Append(sig.taken, PoolPop(pointPool).point), sig.fresh)
    /\ UNCHANGED <<enc, dec, ver>>

\* an attempt that generates its point
SignAttemptFresh ==
    /\ sig.pc = "loop"
    /\ Len(sig.taken) + sig.fresh < MaxAttempts
    /\ ~(sig.usePool /\ Len(pointPool) > 0)
    /\ \E k \in Ephemerals :
        sig' = AfterPass(SignPass(sig.e, hexToNumber(KeyHex(sig.d)), getPoint(k), sig.s),
                         "fresh", sig.taken, sig.fresh + 1)
    /\ UNCHANGED <<enc, dec, pointPool, ver>>

\* doVerifySignature called on signHex for the key d * G
VerifyCall(msg, signHex, d, der, hash, rIn, sIn) ==
    [called |-> TRUE, msg |-> msg, signHex |-> signHex, d |-> d, der |-> der,
     hash |-> hash, rIn |-> rIn, sIn |-> sIn,
     ret |-> doVerifySignature(msg, signHex, getPublicKeyFromPrivateKey(KeyHex(d)),
                               der, hash)]

\* the signature doSignature returned is verified
VerifySigned ==
    /\ sig.pc = "done" /\ ~ver.called
    /\ ver' = VerifyCall(sig.msg, sig.out, sig.d, sig.der, sig.hash, sig.r, sig.s)
    /\ UNCHANGED <<enc, dec, sig, pointPool>>

SigNext == SignStart \/ SignAttemptPool \/ SignAttemptFresh \/ VerifySigned

SpecSig == SigInit /\ [][SigNext]_vars

----------------------------------------------------------------------------
(* The signing machine with its loop left to run: the passes are counted up  *)
(* to MaxAttempts and go on uncounted after that.  The loop is sequential    *)
(* code, so a pass that can be taken is taken; the random source is assumed  *)
(* to yield, sooner or later, a k that the loop conditions let through,      *)
(* when there is one.  What a pass computes is read from the tables of       *)
(* SignPass and SignReturn over the values of the scaled-down curve.         *)

\* the values the variable s can hold
SValues == {Null} \cup 0..(CurveN - 1)

\* SignPass for every e modulo n, key, point and earlier s
SignPassTable ==
    [e \in 0..(CurveN - 1) |->
        [d \in PrivateKeys |->
            [k \in Ephemerals |->
                [sPrev \in SValues |->
                    SignPass(e, hexToNumber(KeyHex(d)), getPoint(k), sPrev)]]]]

\* SignReturn for every r and s the loop lets through
SignReturnTable ==
    [r \in 1..(CurveN - 1) |->
        [s \in 1..(CurveN - 1) |-> [der \in BOOLEAN |-> SignReturn(r, s, der)]]]

\* sig after the pass of the loop body that took point from src
LiveAfterPass(pass, src, taken, fresh) ==
    [sig EXCEPT
       !.pc = IF pass.again THEN "loop" ELSE "done",
       !.k = pass.k, !.x1 = pass.x1, !.r = pass.r, !.s = pass.s,
       !.src = src, !.taken = taken, !.fresh = fresh,
       !.out = IF pass.again THEN <<>>
               ELSE SignReturnTable[pass.r][pass.s][sig.der]]

\* an attempt that pops its point from the pool
LiveAttemptPool ==
    /\ sig.pc = "loop"
    /\ sig.usePool /\ Len(pointPool) > 0
    /\ pointPool' = PoolPop(pointPool).rest
    /\ sig' = LiveAfterPass(SignPassTable[sig.e][sig.d][PoolPop(pointPool).point.k][sig.s],
                            "pool",
                            IF Len(sig.taken) + sig.fresh < MaxAttempts
                            THEN Append(sig.taken, PoolPop(pointPool).point)
                            ELSE sig.taken,
                            sig.fresh)
    /\ UNCHANGED <<enc, dec, ver>>

\* an attempt that generates its point, with the random private key k
LiveFreshWith(k) ==
    /\ sig.pc = "loop"
    /\ ~(sig.usePool /\ Len(pointPool) > 0)
    /\ sig' = LiveAfterPass(SignPassTable[sig.e][sig.d][k][sig.s], "fresh", sig.taken,
                            IF Len(sig.taken) + sig.fresh < MaxAttempts
                            THEN sig.fresh + 1 ELSE sig.fresh)
    /\ UNCHANGED <<enc, dec, pointPool, ver>>

LiveAttemptFresh == \E k \in Ephemerals : LiveFreshWith(k)

\* the random source yields a k that passes the loop conditions
SignDrawsPassing ==
    /\ sig.pc = "loop"
    /\ \E k \in Ephemerals :
        /\ ~SignPassTable[sig.e][sig.d][k][sig.s].again
        /\ LiveFreshWith(k)

LiveNext == SignStart \/ LiveAttemptPool \/ LiveAttemptFresh

SpecSigLive ==
    /\ SigInit
    /\ [][LiveNext]_vars
    /\ WF_vars(LiveAttemptPool)
    /\ WF_vars(SignDrawsPassing)

----------------------------------------------------------------------------
(* The verifier alone: doVerifySignature is called on the framing of any     *)
(* pair of integers (r, s) up to MaxSigInt, for any message and key.         *)

Verify ==
    /\ ~ver.called
    /\ \E msg \in SigMessages, d \in PrivateKeys, der \in BOOLEAN,
          r \in 0..MaxSigInt, s \in 0..MaxSigInt :
       \E hash \in HashOptions(msg) :
        ver' = VerifyCall(msg, SignReturn(r, s, der), d, der, hash, r, s)
    /\ UNCHANGED <<enc, dec, sig, pointPool>>

VerNext == Verify

SpecVer == EncInit /\ [][VerNext]_vars

----------------------------------------------------------------------------
(* Properties of encryption and decryption, checked under SpecEnc *)

\* C1: decrypting what doEncrypt returned, with the private key of the public
\* key it encrypted for, in the same cipher mode and the same asn1 setting,
\* returns the message: every message (the empty one too), every key, every
\* ephemeral k, both modes, asn1 on and off.
C1_RoundTrip ==
    (dec.called /\ dec.tamper = "none") =>
        (~dec.ret.threw /\ dec.ret.value = enc.msg)

\* a message longer than two hash blocks has made the round trip in mode
\* C1C2C3 with asn1 on
C1_Witness ==
    /\ dec.called /\ dec.tamper = "none"
    /\ enc.asn1 /\ enc.cipherMode = C1C2C3
    /\ Len(enc.msg) > 2 * Sm3Len
    /\ ~dec.ret.threw /\ dec.ret.value = enc.msg

\* C4, as the specification states it: with one bit of C1, C2 or C3 flipped,
\* doDecrypt (same key, same mode) returns the empty result, neither a
\* plaintext nor an error.
C4_TamperGivesEmpty ==
    (dec.called /\ dec.tamper # "none") =>
        (~dec.ret.threw /\ dec.ret.value = <<>>)

\* a flipped bit of C1 has made doDecrypt throw, where the point it names is
\* not on the curve
C4_Witness ==
    /\ dec.called /\ dec.tamper = "c1"
    /\ dec.ret.threw
    /\ ~enc.asn1

\* C6: without asn1 the result of doEncrypt is the concatenation of C1 (128
\* hex characters, x1 || y1 of k * G, no 04), C3 (64) and C2 (2 |M|), in the
\* order C1 C3 C2 by default and C1 C2 C3 in mode 0; the other mode with the
\* same k and M gives the same fields in the other order; doDecrypt cuts the
\* string it is given at the same offsets.
C6_Framing ==
    /\ (enc.called /\ ~enc.asn1) =>
         LET kG == PointMul(BASE, enc.k)
             f == enc.fields
             other == doEncrypt(enc.msg, getPublicKeyFromPrivateKey(KeyHex(enc.d)),
                                1 - enc.cipherMode, FALSE, enc.k)
         IN /\ Len(f.c1) = 128 /\ Len(f.c3) = 64 /\ Len(f.c2) = 2 * Len(enc.msg)
            /\ Len(enc.out) = 128 + 64 + 2 * Len(enc.msg)
            /\ f.c1 = SubSeq(PointToHex(kG), 3, 130)
            /\ enc.cipherMode = C1C3C2 =>
                 /\ enc.out = f.c1 \o f.c3 \o f.c2
                 /\ other = f.c1 \o f.c2 \o f.c3
            /\ enc.cipherMode = C1C2C3 =>
                 /\ enc.out = f.c1 \o f.c2 \o f.c3
                 /\ other = f.c1 \o f.c3 \o f.c2
    /\ (dec.called /\ ~enc.asn1 /\ ~dec.ret.threw) =>
         LET data == dec.encryptData
             n == Len(data)
         IN /\ SubSeq(PointToHex(dec.ret.c1), 3, 130) = SubSeq(data, 1, 128)
            /\ enc.cipherMode = C1C3C2 =>
                 /\ dec.ret.c3 = SubSeq(data, 129, 192)
                 /\ dec.ret.c2 = SubSeq(data, 193, n)
            /\ enc.cipherMode = C1C2C3 =>
                 /\ dec.ret.c2 = SubSeq(data, 129, n - 64)
                 /\ dec.ret.c3 = SubSeq(data, n - 63, n)

\* a 33-byte message was framed C1 C2 C3 without asn1 and cut again by doDecrypt
C6_Witness ==
    /\ dec.called /\ dec.tamper = "none"
    /\ ~enc.asn1 /\ enc.cipherMode = C1C2C3
    /\ Len(enc.msg) = Sm3Len + 1
    /\ enc.out = enc.fields.c1 \o enc.fields.c2 \o enc.fields.c3
    /\ dec.ret.c2 = enc.fields.c2 /\ dec.ret.c3 = enc.fields.c3

\* C10: byte j of the buffer (0 <= j < L) is XORed with byte j mod 32 of
\* SM3(x2 || y2 || BE32(1 + j div 32)), in encryption (C2 from M) and in
\* decryption (M from C2); for the empty message no byte of a block is taken,
\* C2 is empty and C3 is SM3(x2 || y2).
C10_KdfClosedForm ==
    enc.called =>
        LET p == PointMul(PointMul(BASE, enc.d), enc.k)
            x2 == CoordBytes(p.x)
            y2 == CoordBytes(p.y)
            L == Len(enc.msg)
            BE32(c) == [i \in 1..4 |-> (c \div (256 ^ (4 - i))) % 256]
            block == [c \in 1..((L + 31) \div 32) |-> sm3(x2 \o y2 \o BE32(c))]
            key(j) == block[1 + (j \div 32)][1 + (j % 32)]
            c2 == hexToArray(enc.fields.c2)
        IN /\ Len(c2) = L
           /\ \A j \in 0..(L - 1) : c2[j + 1] = BitXor(enc.msg[j + 1], key(j))
           /\ (dec.called /\ dec.tamper = "none") =>
                /\ Len(dec.ret.value) = L
                /\ \A j \in 0..(L - 1) :
                     dec.ret.value[j + 1] = BitXor(c2[j + 1], key(j))
           /\ L = 0 =>
                /\ enc.fields.c2 = <<>>
                /\ enc.fields.c3 = bytesToHex(sm3(x2 \o y2))
                /\ xorCipherStream(x2, y2, enc.msg).offset = 0

\* a message of 97 bytes, which takes one byte of the fourth block, was
\* encrypted and decrypted
C10_Witness ==
    /\ dec.called /\ dec.tamper = "none"
    /\ Len(enc.msg) = 3 * Sm3Len + 1
    /\ Len(enc.fields.c2) = 2 * (3 * Sm3Len + 1)
    /\ dec.ret.value = enc.msg

----------------------------------------------------------------------------
(* Properties of signing, checked under SpecSig *)

\* C2: the signature doSignature returns for a message under the key d
\* verifies against d * G with the same options: doVerifySignature returns
\* true, with the Z pre-hash on and off, in raw and in DER framing, with the
\* point of the final attempt popped from the pool or freshly generated.
C2_SignThenVerify ==
    (ver.called /\ sig.pc = "done") => (~ver.ret.threw /\ ver.ret.value = TRUE)

\* a DER signature over the Z pre-hash, made with a fresh point after the
\* pool's entries were rejected, has verified
C2_Witness ==
    /\ ver.called /\ sig.pc = "done"
    /\ sig.hash /\ sig.der
    /\ sig.src = "fresh" /\ Len(sig.taken) > 0
    /\ ver.ret.value = TRUE

\* C7: every attempt pops its (k, x1) from the end of the caller's pool
\* while the pool given is not empty and generates one only when the pool is
\* empty or absent; the entries popped are the last entries of the pool as it
\* was before the call, each used by one attempt, none put back; what is left
\* of the pool is its front, unchanged.
C7_PoolFrame ==
    sig.pc # "idle" =>
        LET before == sig.pool0
            popped == Len(sig.taken)
        IN /\ popped <= Len(before)
           /\ pointPool = SubSeq(before, 1, Len(before) - popped)
           /\ \A i \in 1..popped : sig.taken[i] = before[Len(before) - i + 1]
           /\ ~sig.usePool => popped = 0
           /\ sig.src = "pool" =>
                /\ popped > 0 /\ sig.fresh = 0
                /\ sig.k = sig.taken[popped].k /\ sig.x1 = sig.taken[popped].x1
           /\ sig.src = "fresh" => sig.fresh > 0
           /\ sig.fresh > 0 => (~sig.usePool \/ (pointPool = <<>> /\ popped = Len(before)))
           /\ (sig.src = "none") = (popped + sig.fresh = 0)

\* two different entries were popped, the last one first, and the second one
\* gave the signature
C7_Witness ==
    /\ sig.pc = "done" /\ sig.src = "pool"
    /\ Len(sig.taken) = 2 /\ Len(sig.pool0) = 2
    /\ sig.taken[1] # sig.taken[2]
    /\ sig.taken[1] = sig.pool0[2]
    /\ pointPool = <<>>

\* C8: when doSignature returns, r = (e + x1) mod n with x1 the x of k * G,
\* s (1 + d) = k - r d modulo n, r # 0, r + k # n and s # 0, so r and s are in
\* [1, n-1], and the string returned frames this r and s; an attempt that
\* breaks one of the three conditions does not return: the loop goes on.
C8_SignEquations ==
    (sig.src # "none") =>
        LET n == CurveN
            x1 == PointMul(BASE, sig.k).x
            r == (sig.e + x1) % n
            kept == r # 0 /\ r + sig.k # n /\ (sig.k - r * sig.d) % n # 0
        IN /\ sig.k \in 1..(n - 1)
           /\ sig.x1 = x1
           /\ sig.r = r
           /\ (sig.pc = "done") = kept
           /\ (sig.pc = "loop") = ~kept
           /\ sig.pc = "done" =>
                /\ (sig.s * (1 + sig.d)) % n = (sig.k - r * sig.d) % n
                /\ sig.r \in 1..(n - 1) /\ sig.s \in 1..(n - 1)
                /\ sig.r + sig.k # n
                /\ VerifyParse(sig.out, sig.der) = [r |-> sig.r, s |-> sig.s]

\* a signature was returned by the third attempt
C8_Witness ==
    /\ sig.pc = "done"
    /\ Len(sig.taken) + sig.fresh = 3
    /\ sig.r \in 1..(CurveN - 1) /\ sig.s \in 1..(CurveN - 1)

----------------------------------------------------------------------------
(* Properties of verification, checked under SpecVer *)

\* C3, as the specification states it: doVerifySignature does not return
\* true for a signature whose r or s, as recovered from signHex, is outside
\* [1, n-1].
C3_OutOfRangeRejected ==
    (ver.called /\ (ver.ret.r \notin 1..(CurveN - 1) \/ ver.ret.s \notin 1..(CurveN - 1)))
        => ~(~ver.ret.threw /\ ver.ret.value = TRUE)

\* a signature with r = 0 was accepted
C3_Witness ==
    /\ ver.called /\ ver.ret.r = 0
    /\ ~ver.ret.threw /\ ver.ret.value = TRUE

\* C5, as the specification states it: doVerifySignature raises no error, and
\* whenever r or s is out of range, t is 0 or s * G + t * P is the identity,
\* the value it returns is false.
C5_AlwaysBoolean ==
    ver.called =>
        /\ ~ver.ret.threw
        /\ (\/ ver.ret.r \notin 1..(CurveN - 1)
            \/ ver.ret.s \notin 1..(CurveN - 1)
            \/ ver.ret.t = 0
            \/ ver.ret.inf) => ver.ret.value = FALSE

\* a signature with s = 0 made doVerifySignature throw
C5_Witness ==
    /\ ver.called /\ ver.ret.s = 0 /\ ver.ret.r \in 1..(CurveN - 1)
    /\ ver.ret.threw

\* C9, as the specification states it: doVerifySignature does not return
\* true when s * G + t * P is the identity.
C9_InfinityRejected ==
    (ver.called /\ ver.ret.inf) => ver.ret.value = FALSE

\* a signature with r and s in [1, n-1] was accepted on the x read from the
\* identity
C9_Witness ==
    /\ ver.called /\ ver.ret.inf
    /\ ver.ret.r \in 1..(CurveN - 1) /\ ver.ret.s \in 1..(CurveN - 1)
    /\ ~ver.ret.threw /\ ver.ret.value = TRUE

----------------------------------------------------------------------------
(* Termination of signing, checked under SpecSigLive *)

\* C11: for every key d in [1, n-2] and every pool, a call of doSignature
\* that has reached its loop returns a signature, provided some k passes the
\* loop conditions for its e and d and the random source yields one in the
\* end: the pool's entries, if rejected, are popped one per pass until the
\* pool is empty, and the loop goes on with generated points.
C11_SignTerminates ==
    (/\ sig.pc = "loop"
     /\ \E k \in Ephemerals :
          LET r == (sig.e + PointMul(BASE, k).x) % CurveN
          IN r # 0 /\ r + k # CurveN /\ (k - r * sig.d) % CurveN # 0)
        ~> (sig.pc = "done" /\ sig.r \in 1..(CurveN - 1) /\ sig.s \in 1..(CurveN - 1))

\* every entry of a pool of two was popped and rejected, and a generated
\* point gave the signature
C11_Witness ==
    /\ sig.pc = "done" /\ sig.usePool
    /\ Len(sig.pool0) = 2 /\ Len(sig.taken) = 2
    /\ pointPool = <<>>
    /\ sig.src = "fresh"
    /\ sig.out # <<>>

====
